---- MODULE Spec2Model ----
(***************************************************************************)
(* State-machine model of the wgpu package: Gpu (adapter/device            *)
(* acquisition), Surface (canvas context), Program cache and MipGenerator  *)
(* (mip level count and the render-pass loop of generate).                 *)
(*                                                                         *)
(* JavaScript runs every handler to completion between two awaits, so one  *)
(* action is the code between two suspension points.  Calls may overlap:   *)
(* several init() and generate() invocations can be suspended together.    *)
(* The loop of generate() is shown one iteration per step; while it runs   *)
(* no other action is enabled (Running).                                   *)
(***************************************************************************)
EXTENDS Integers, Sequences, FiniteSets, Bags, TLC

\* ------------------------------------------------------------- bounds
\* Square textures of side 1..MaxDim (plus the sizes the specification names).
MaxDim == 1
\* Explicit mipLevelCount arguments 1..MaxLevelArg (plus one large value).
MaxLevelArg == 1
\* Concurrent direct callers of getProgram.
NumCallers == 2
\* Program objects whose init() completed.
MaxPrograms == 3
\* Samplers created by MipGenerator.init.
MaxSamplers == 2
\* Entries of the log of the device queue.
MaxQueue == 4
\* The small value of the device's maxTextureDimension2D.
MaxLimit == 3
\* Gpu.init() calls suspended together.
MaxInits == 2

\* ------------------------------------------------------------- values
NULL == "null"
\* What a throwing getter yields instead of a handle.
NotInitialized == "throws: not initialized"

Formats == {"rgba8unorm", "bgra8unorm"}
\* texture.format of the textures handed to generate() and createTexture();
\* the direct callers of getProgram ask for every format.
TexFormats == {"rgba8unorm"}

Dims == 1..MaxDim
\* Texture sizes handed to generate(): the small squares and the named
\* sizes: a square, a single column, a single row, a non-square one.
TexSizes ==
  {<<d, d>> : d \in Dims}
    \cup {<<256, 256>>, <<1, 256>>, <<256, 1>>, <<300, 150>>}
\* The optional mipLevelCount argument: <<>> is undefined, <<n>> is n.
LevelArgs == {<<>>} \cup {<<n>> : n \in (1..MaxLevelArg) \cup {12}}
\* Arguments of countMipLevels: 1 to 3 positive dimensions.
CountDims == Dims \cup {150, 255, 256, 257, 300}
CountArgs == {<<a>> : a \in CountDims}
               \cup (CountDims \X CountDims)
               \cup (CountDims \X CountDims \X {1, 2})

Callers == 1..NumCallers

\* generate() invocations that are suspended together: two.
Gens == {1, 2}

\* How a request of the platform settles: with its handle, with null, or
\* by rejecting.
Settles == {"handle", "null", "rejects"}

\* gpu.device.limits.maxTextureDimension2D: a small limit and a usual one.
DeviceLimits == {MaxLimit, 4096}
\* Content-box and offset sizes of the canvas, in pixels: zero, the small
\* limit and one more, the usual limit and a size above it.
CanvasSizes == {0, MaxLimit, MaxLimit + 1, 4096, 5000}

\* ------------------------------------------------------ pure functions
\* Math.max(a, b)
Max(a, b) == IF a >= b THEN a ELSE b

\* Math.max(...sizes) over a non-empty list, folded left to right.
RECURSIVE MathMax(_)
MathMax(sizes) ==
  IF Len(sizes) = 1 THEN Head(sizes)
  ELSE Max(Head(sizes), MathMax(Tail(sizes)))

\* Math.log2(n) truncated by "| 0", for an integer n >= 1: the number of
\* times n can be halved before reaching 1.
RECURSIVE FloorLog2(_)
FloorLog2(n) == IF n <= 1 THEN 0 ELSE 1 + FloorLog2(n \div 2)

\* A plausible slip: the "1 +" is forgotten.
countMipLevels_noPlusOne(sizes) ==
  IF Len(sizes) = 0 THEN 0
  ELSE IF MathMax(sizes) <= 0 THEN 0
  ELSE FloorLog2(MathMax(sizes))

\* MipGenerator.countMipLevels(...sizes) == (1 + Math.log2(max)) | 0.
\* Math.max() of nothing is -Infinity and log2 of a value <= 0 is NaN or
\* -Infinity; "| 0" turns each into 0.
countMipLevels(sizes) ==
  IF Len(sizes) = 0 THEN 0
  ELSE IF MathMax(sizes) <= 0 THEN 0
  ELSE 1 + FloorLog2(MathMax(sizes))

\* Math.min(a, b)
Min(a, b) == IF a <= b THEN a ELSE b

\* Math.max(1, (x / 2) | 0)
Halve(x) == Max(1, x \div 2)

\* ---------------------------------------------------------- variables
VARIABLES
  \* Gpu
  gpuAdapter,     \* Gpu._adapter: NULL or "adapter"
  gpuDevice,      \* Gpu._device: NULL or "device"
  gpuAdapterReqs, \* Gpu.init() calls suspended at "await requestAdapter()"
  gpuDeviceReqs,  \* Gpu.init() calls suspended at "await requestDevice()"
  gpuHist,        \* history: which requests ever succeeded; some request
                  \* returned null (init() threw for lack of an adapter or
                  \* of a device)
  gpuLimit,       \* the device's limits.maxTextureDimension2D
  \* Surface
  canvasWebGPU,   \* whether canvas.getContext('webgpu') yields a context
  surfContext,    \* Surface._context
  surfFormat,     \* Surface._format
  surfObserver,   \* Surface._resizeObserver is set
  surfLast,       \* outcome of the last Surface.init(): none/resolved/rejected
  surfResolved,   \* history: some Surface.init() has resolved
  canvasWidth,    \* canvas.width
  canvasHeight,   \* canvas.height
  lastResize,     \* the content-box size of the last resize event since
                  \* init set the canvas size; <<>> when there was none
  \* MipGenerator
  sampler,        \* MipGenerator._sampler: 0 is null, else the sampler's id
  samplersMade,   \* samplers created so far
  programMap,     \* MipGenerator._programMap: format -> program id, 0 absent
  programsMade,   \* Program objects initialised so far
  callers,        \* direct getProgram() calls in flight
  given,          \* history: <<format, program>> pairs returned to callers
  compiles,       \* history: completed Program.init() per format
  overlapped,     \* history: two calls for the format were in flight at once
  lastReturn,     \* history: the last getProgram() return
  failedCompiles, \* history: a Program.init() for the format has thrown
  countCall,      \* the last countMipLevels() call and its result
  \* generate(): the invocations suspended at "await this.getProgram(...)"
  suspended,      \* a bag of [pc, format, texture, arg, program, caller,
                  \* texId, levels, encoder]
  \* generate(): the invocation that has resumed, and its locals
  genPc,
  genFormat,      \* texture.format
  genTexture,     \* <<texture.width, texture.height>>
  genArg,         \* the mipLevelCount argument
  genProgram,     \* const program
  genCaller,      \* who invoked generate: "client" or "createTexture"
  genTexId,       \* the texture: 0 a client's, else the id createTexture gave
  texLevels,      \* texture.mipLevelCount of a created texture (0: a client's)
  encoder,        \* the command encoder exists
  width,
  height,
  baseMipLevel,
  mipLevelCount,
  passes,         \* render passes encoded, in order
  submitted,      \* queue.submit() calls of this invocation
  result,         \* the value returned
  \* the device
  queue,          \* log of gpu.device.queue: copies and submits, in order
  boundSamplers   \* history: samplers bound by the bind groups built so far

gpuVars == <<gpuAdapter, gpuDevice, gpuAdapterReqs, gpuDeviceReqs, gpuHist,
            gpuLimit>>
surfVars == <<canvasWebGPU, surfContext, surfFormat, surfObserver, surfLast,
              surfResolved, canvasWidth, canvasHeight, lastResize>>
samplerVars == <<sampler, samplersMade>>
cacheVars == <<programMap, programsMade, callers, given, compiles, overlapped,
               lastReturn, failedCompiles>>
genCall == <<genFormat, genTexture, genArg, genProgram, genCaller, genTexId,
             texLevels>>
loopLocals == <<width, height, baseMipLevel, mipLevelCount, passes, submitted,
                result>>
genVars == <<suspended, genPc, genCall, encoder, loopLocals>>
queueVars == <<queue, boundSamplers>>
vars == <<gpuVars, surfVars, samplerVars, cacheVars, countCall, genVars,
          queueVars>>

\* generate() is between its continuation and its return: nothing else runs.
Running == genPc \in {"loop", "done", "failed"}

\* --------------------------------------------------------------- Gpu
\* A plausible slip: only the adapter is tested.
Gpu_ready_adapterOnly == gpuAdapter # NULL

\* get ready(): !!this._adapter && !!this._device
Gpu_ready == gpuAdapter # NULL /\ gpuDevice # NULL

\* get adapter()
Gpu_adapter == IF gpuAdapter = NULL THEN NotInitialized ELSE gpuAdapter

\* get device()
Gpu_device == IF gpuDevice = NULL THEN NotInitialized ELSE gpuDevice

\* Gpu.init(), up to the first await: navigator.gpu?.requestAdapter().
\* Nothing keeps a second call from starting while one is suspended.
GpuInit ==
  /\ ~Running
  /\ gpuAdapterReqs + gpuDeviceReqs < MaxInits
  /\ gpuAdapterReqs' = gpuAdapterReqs + 1
  /\ UNCHANGED <<gpuAdapter, gpuDevice, gpuDeviceReqs, gpuHist, gpuLimit>>
  /\ UNCHANGED <<surfVars, samplerVars, cacheVars, countCall, genVars, queueVars>>

\* An adapter request settles.  With an adapter: it is stored, and
\* this._adapter?.requestDevice(...) is called, up to its await.  With
\* null: null is stored and init() throws.  By rejecting: init() rejects
\* with the fields untouched.
GpuAdapterResolved ==
  /\ ~Running
  /\ gpuAdapterReqs > 0
  /\ gpuAdapterReqs' = gpuAdapterReqs - 1
  /\ \E how \in Settles :
       /\ gpuAdapter' = CASE how = "handle" -> "adapter"
                          [] how = "null" -> NULL
                          [] OTHER -> gpuAdapter
       /\ gpuDeviceReqs' = IF how = "handle" THEN gpuDeviceReqs + 1
                                             ELSE gpuDeviceReqs
       /\ gpuHist' = CASE how = "handle" ->
                            [gpuHist EXCEPT !.adapterOk = TRUE]
                       [] how = "null" -> [gpuHist EXCEPT !.failed = TRUE]
                       [] OTHER -> gpuHist
  /\ UNCHANGED <<gpuDevice, gpuLimit>>
  /\ UNCHANGED <<surfVars, samplerVars, cacheVars, countCall, genVars, queueVars>>

\* A device request settles.  What it resolves to is stored, whatever
\* this._adapter is by now: a device (init() resolves) or null (init()
\* throws).  By rejecting: init() rejects with the fields untouched.
GpuDeviceResolved ==
  /\ ~Running
  /\ gpuDeviceReqs > 0
  /\ gpuDeviceReqs' = gpuDeviceReqs - 1
  /\ \E how \in Settles :
       /\ gpuDevice' = CASE how = "handle" -> "device"
                         [] how = "null" -> NULL
                         [] OTHER -> gpuDevice
       /\ gpuHist' = CASE how = "handle" ->
                            [gpuHist EXCEPT !.deviceOk = TRUE]
                       [] how = "null" -> [gpuHist EXCEPT !.failed = TRUE]
                       [] OTHER -> gpuHist
  /\ UNCHANGED <<gpuAdapter, gpuAdapterReqs, gpuLimit>>
  /\ UNCHANGED <<surfVars, samplerVars, cacheVars, countCall, genVars, queueVars>>

\* ----------------------------------------------------------- Surface
\* get ready(): !!this._context && !!this._format
Surface_ready == surfContext # NULL /\ surfFormat # NULL

\* get context()
Surface_context == IF surfContext = NULL THEN NotInitialized ELSE surfContext

\* get format()
Surface_format == IF surfFormat = NULL THEN NotInitialized ELSE surfFormat

\* Surface.init(gpu): no await inside, so the whole body is one step.
\* It first sets the canvas size to the canvas's offset size.  It throws
\* after storing the context when the canvas has none, and after storing
\* context and format when gpu.device throws inside configure().
SurfaceInit ==
  /\ ~Running
  /\ \E w \in CanvasSizes, h \in CanvasSizes :
       /\ canvasWidth' = w
       /\ canvasHeight' = h
  /\ lastResize' = <<>>
  /\ surfContext' = IF canvasWebGPU THEN "context" ELSE NULL
  /\ surfFormat' = IF canvasWebGPU THEN "preferred" ELSE surfFormat
  /\ IF canvasWebGPU /\ Gpu_device # NotInitialized
       THEN /\ surfObserver' = TRUE
            /\ surfLast' = "resolved"
            /\ surfResolved' = TRUE
       ELSE /\ surfLast' = "rejected"
            /\ UNCHANGED <<surfObserver, surfResolved>>
  /\ UNCHANGED canvasWebGPU
  /\ UNCHANGED <<gpuVars, samplerVars, cacheVars, countCall, genVars, queueVars>>

\* A variant without the lower bound.
ClampToLimit_noFloor(size) == Min(size, gpuLimit)

\* Math.max(1, Math.min(size, gpu.device.limits.maxTextureDimension2D))
ClampToLimit(size) == Max(1, Min(size, gpuLimit))

\* The ResizeObserver callback for one entry whose content box is w x h.
\* gpu.device throws when the Gpu has no device, before the canvas is set.
ResizeEvent ==
  /\ ~Running
  /\ surfObserver
  /\ \E w \in CanvasSizes, h \in CanvasSizes :
       IF Gpu_device = NotInitialized
         THEN UNCHANGED <<canvasWidth, canvasHeight, lastResize>>
         ELSE /\ canvasWidth' = ClampToLimit(w)
              /\ canvasHeight' = ClampToLimit(h)
              /\ lastResize' = <<w, h>>
  /\ UNCHANGED <<canvasWebGPU, surfContext, surfFormat, surfObserver, surfLast,
                 surfResolved>>
  /\ UNCHANGED <<gpuVars, samplerVars, cacheVars, countCall, genVars, queueVars>>

\* ------------------------------------------------------ MipGenerator
\* get sampler()
Mip_sampler == IF sampler = 0 THEN NotInitialized ELSE "sampler"

\* MipGenerator.init(gpu): gpu.device.createSampler(...); throws when the
\* Gpu has no device.
MipInit ==
  /\ ~Running
  /\ samplersMade < MaxSamplers
  /\ IF Gpu_device = NotInitialized
       THEN UNCHANGED samplerVars
       ELSE /\ samplersMade' = samplersMade + 1
            /\ sampler' = samplersMade + 1
  /\ UNCHANGED <<gpuVars, surfVars, cacheVars, countCall, genVars, queueVars>>

\* getBindGroup({gpu, program, texture, baseMipLevel}) called by a client
\* with a Program of its own: gpu.device, program.pipeline (initialised or
\* not) and this.sampler may each throw; otherwise a bind group binding the
\* current sampler is built.
GetBindGroupCall ==
  /\ ~Running
  /\ \E programReady \in BOOLEAN :
       IF \/ Gpu_device = NotInitialized
          \/ ~programReady
          \/ Mip_sampler = NotInitialized
         THEN UNCHANGED boundSamplers
         ELSE boundSamplers' = boundSamplers \cup {sampler}
  /\ UNCHANGED queue
  /\ UNCHANGED <<gpuVars, surfVars, samplerVars, cacheVars, countCall, genVars>>

\* countMipLevels(...sizes) called by a client.
CountCall ==
  /\ ~Running
  /\ \E sizes \in CountArgs :
       countCall' = [called |-> TRUE, sizes |-> sizes,
                     result |-> countMipLevels(sizes)]
  /\ UNCHANGED <<gpuVars, surfVars, samplerVars, cacheVars, genVars, queueVars>>

\* ------------------------------------------------------ getProgram
\* this._programMap.get(format): 0 when there is no entry.
CacheLookup_alwaysMiss(format) == 0

CacheLookup(format) == programMap[format]

\* Some getProgram(format) call is suspended at "await program.init(...)":
\* init() is async, so the call is suspended there whether init() completed
\* ("await", "awaitProgram") or threw ("awaitThrows").
InFlight(format) ==
  \/ \E c \in Callers :
       callers[c].pc \in {"await", "awaitThrows"} /\ callers[c].format = format
  \/ \E r \in BagToSet(suspended) :
       r.pc \in {"awaitProgram", "awaitThrows"} /\ r.format = format

\* A single-flight variant: a call that finds another one compiling the
\* format shares that call's Program.
NewProgram_shared(format) ==
  IF \E c \in Callers : callers[c].pc = "await" /\ callers[c].format = format
    THEN LET c == CHOOSE d \in Callers :
                    callers[d].pc = "await" /\ callers[d].format = format
         IN callers[c].program
    ELSE programsMade + 1

\* program = new Program(): a fresh object for the format.
NewProgram(format) == programsMade + 1

\* Program.init(gpu, descriptor) completes: gpu.device does not throw and
\* the platform builds the shader module and the pipeline (ok).
CompileSucceeds(ok) == Gpu_device # NotInitialized /\ ok

IdleCaller == [pc |-> "idle", format |-> NULL, program |-> 0]

\* A variant that stores the new Program before initialising it, so that a
\* throwing init() leaves the entry behind.
MapAfterFailedInit_storedFirst(format) ==
  [programMap EXCEPT ![format] = programsMade + 1]

\* The map when "await program.init(...)" throws: set() was not reached.
MapAfterFailedInit(format) == programMap

\* A one-entry cache: storing a format drops the others.
MapSet_single(format, program) ==
  [f \in Formats |-> IF f = format THEN program ELSE 0]

\* this._programMap.set(format, program)
MapSet(format, program) == [programMap EXCEPT ![format] = program]

\* The bookkeeping of a getProgram(format) call whose Program.init() throws:
\* the call is suspended at the await all the same.
CompileFailed(format) ==
  /\ programMap' = MapAfterFailedInit(format)
  /\ failedCompiles' = [failedCompiles EXCEPT ![format] = TRUE]
  /\ overlapped' = [overlapped EXCEPT ![format] = @ \/ InFlight(format)]
  /\ UNCHANGED <<programsMade, given, compiles, lastReturn>>

\* The bookkeeping of a completed Program.init() for the format.
Compiled(format) ==
  /\ programsMade < MaxPrograms
  /\ programsMade' = programsMade + 1
  /\ compiles' = [compiles EXCEPT ![format] = @ + 1]
  /\ overlapped' = [overlapped EXCEPT ![format] = @ \/ InFlight(format)]

\* getProgram(gpu, format) by caller c, up to its return (cache hit) or its
\* await: of an init() that completed (the Program is not yet stored) or of
\* one that threw (the call rejects when it resumes).
GetProgramCall(c) ==
  /\ ~Running
  /\ callers[c].pc = "idle"
  /\ \E format \in Formats, ok \in BOOLEAN :
       IF CacheLookup(format) # 0
         THEN /\ given' = given \cup {<<format, CacheLookup(format)>>}
              /\ lastReturn' = [format |-> format,
                                program |-> CacheLookup(format), hit |-> TRUE]
              /\ UNCHANGED <<programMap, programsMade, callers, compiles,
                             overlapped, failedCompiles>>
         ELSE IF ~CompileSucceeds(ok)
           THEN /\ CompileFailed(format)
                /\ callers' = [callers EXCEPT ![c] =
                     [pc |-> "awaitThrows", format |-> format,
                      program |-> 0]]
           ELSE /\ Compiled(format)
                /\ callers' = [callers EXCEPT ![c] =
                     [pc |-> "await", format |-> format,
                      program |-> NewProgram(format)]]
                /\ UNCHANGED <<programMap, given, lastReturn,
                               failedCompiles>>
  /\ UNCHANGED <<gpuVars, surfVars, samplerVars, countCall, genVars, queueVars>>

\* The continuation of getProgram after the await: store and return.
ProgramStored(c) ==
  /\ ~Running
  /\ callers[c].pc = "await"
  /\ programMap' = MapSet(callers[c].format, callers[c].program)
  /\ given' = given \cup {<<callers[c].format, callers[c].program>>}
  /\ lastReturn' = [format |-> callers[c].format,
                    program |-> callers[c].program, hit |-> FALSE]
  /\ callers' = [callers EXCEPT ![c] = IdleCaller]
  /\ UNCHANGED <<programsMade, compiles, overlapped, failedCompiles>>
  /\ UNCHANGED <<gpuVars, surfVars, samplerVars, countCall, genVars, queueVars>>

\* The continuation of getProgram after the await of an init() that threw:
\* the call rejects, set() is not reached.
GetProgramRejected(c) ==
  /\ ~Running
  /\ callers[c].pc = "awaitThrows"
  /\ callers' = [callers EXCEPT ![c] = IdleCaller]
  /\ UNCHANGED <<programMap, programsMade, given, compiles, overlapped,
                 lastReturn, failedCompiles>>
  /\ UNCHANGED <<gpuVars, surfVars, samplerVars, countCall, genVars, queueVars>>

\* --------------------------------------------------------- generate
\* A variant that creates the command encoder before awaiting the program.
EncoderBeforeProgram_first == TRUE

\* Whether the encoder exists when "await this.getProgram(...)" throws:
\* createCommandEncoder comes after that await.
EncoderBeforeProgram == FALSE

\* The id createTexture gives its next texture: one more than the copies
\* logged so far.
NextTexId == 1 + Len(SelectSeq(queue, LAMBDA e : e.op = "copy"))

\* One more invocation is suspended.
Suspend(r) == suspended (+) SetToBag({r})

\* One invocation is suspended no longer.
Unsuspend(r) == suspended (-) SetToBag({r})

\* generate(gpu, texture, mipLevelCount?) up to its first suspension: the
\* synchronous part of getProgram(gpu, texture.format), after which the
\* invocation is suspended at "await this.getProgram(...)": with the
\* cached program ("resume"), with a Program whose init() completed and
\* that getProgram has yet to store ("awaitProgram"), or with a getProgram
\* that rejects when it resumes, init() having thrown ("awaitThrows").
\* The caller, the texture's id and
\* mipLevelCount, and the queue as the caller leaves it are passed in.
\* Every suspended invocation has a place in the queue log kept for it.
StartGenerate(format, tex, arg, ok, caller, id, levels, q) ==
  /\ BagCardinality(suspended) < Cardinality(Gens)
  /\ Len(q) + BagCardinality(suspended) < MaxQueue
  /\ queue' = q
  /\ LET r == [pc |-> "resume", format |-> format, texture |-> tex,
               arg |-> arg, program |-> 0, caller |-> caller, texId |-> id,
               levels |-> levels, encoder |-> FALSE]
     IN IF CacheLookup(format) # 0
          THEN /\ suspended' =
                    Suspend([r EXCEPT !.program = CacheLookup(format)])
               /\ given' = given \cup {<<format, CacheLookup(format)>>}
               /\ lastReturn' = [format |-> format,
                                 program |-> CacheLookup(format),
                                 hit |-> TRUE]
               /\ UNCHANGED <<programMap, programsMade, callers, compiles,
                              overlapped, failedCompiles>>
          ELSE IF ~CompileSucceeds(ok)
            THEN /\ suspended' =
                      Suspend([r EXCEPT !.pc = "awaitThrows",
                                        !.encoder = EncoderBeforeProgram])
                 /\ CompileFailed(format)
                 /\ UNCHANGED callers
            ELSE /\ Compiled(format)
                 /\ suspended' =
                      Suspend([r EXCEPT !.pc = "awaitProgram",
                                        !.program = NewProgram(format)])
                 /\ UNCHANGED <<programMap, callers, given, lastReturn,
                                failedCompiles>>
  /\ UNCHANGED <<genPc, genCall, encoder, loopLocals, boundSamplers>>
  /\ UNCHANGED <<gpuVars, surfVars, samplerVars, countCall>>

\* A client calls generate on a texture of its own.
GenerateCall ==
  /\ ~Running
  /\ \E format \in TexFormats, tex \in TexSizes, arg \in LevelArgs,
        ok \in BOOLEAN :
       StartGenerate(format, tex, arg, ok, "client", 0, 0, queue)

\* queue.copyExternalImageToTexture(source, {texture}, size), as logged.
CopyAtCreate_none(id) == <<>>

CopyAtCreate(id) == <<[op |-> "copy", tex |-> id]>>

\* A variant that leaves mipLevelCount out of the descriptor: one level.
TextureLevels_one(size) == 1

\* createTexture({..., mipLevelCount: countMipLevels(size[0], size[1])})
TextureLevels(size) == countMipLevels(size)

\* if (texture.mipLevelCount)
ShouldGenerate(levels) == levels # 0

\* TextureLoader.createTexture(options): no await inside, so creating the
\* texture, the copy and the synchronous part of the un-awaited generate
\* are one step, after which createTexture has returned the texture.
\* gpu.device throws when the Gpu has no device.
CreateTexture ==
  /\ ~Running
  /\ Gpu_device # NotInitialized
  /\ Len(queue) < MaxQueue
  /\ \E format \in TexFormats, size \in TexSizes, ok \in BOOLEAN :
       LET levels == TextureLevels(size)
           id == NextTexId
           q == queue \o CopyAtCreate(id)
       IN IF ShouldGenerate(levels)
            THEN StartGenerate(format, size, <<>>, ok, "createTexture", id,
                               levels, q)
            ELSE /\ queue' = q
                 /\ UNCHANGED <<genVars, boundSamplers>>
                 /\ UNCHANGED <<gpuVars, surfVars, samplerVars, cacheVars,
                                countCall>>

\* getProgram's continuation inside a suspended generate: store the
\* program and return it; generate's own await has yet to resume.
GenProgramStored ==
  /\ ~Running
  /\ \E r \in BagToSet(suspended) :
       /\ r.pc = "awaitProgram"
       /\ programMap' = MapSet(r.format, r.program)
       /\ given' = given \cup {<<r.format, r.program>>}
       /\ lastReturn' = [format |-> r.format, program |-> r.program,
                         hit |-> FALSE]
       /\ suspended' = Unsuspend(r) (+) SetToBag({[r EXCEPT !.pc = "resume"]})
  /\ UNCHANGED <<programsMade, callers, compiles, overlapped, failedCompiles>>
  /\ UNCHANGED <<genPc, genCall, encoder, loopLocals, queueVars>>
  /\ UNCHANGED <<gpuVars, surfVars, samplerVars, countCall>>

\* getProgram's continuation inside a suspended generate whose init()
\* threw: getProgram rejects; generate's own await has yet to throw.
GenProgramRejected ==
  /\ ~Running
  /\ \E r \in BagToSet(suspended) :
       /\ r.pc = "awaitThrows"
       /\ suspended' = Unsuspend(r) (+) SetToBag({[r EXCEPT !.pc = "rejected"]})
  /\ UNCHANGED <<genPc, genCall, encoder, loopLocals, queueVars>>
  /\ UNCHANGED <<gpuVars, surfVars, samplerVars, cacheVars, countCall>>

\* "await this.getProgram(...)" throws in a suspended generate: the
\* invocation ends, its promise rejects.
GenerateRejected ==
  /\ ~Running
  /\ \E r \in BagToSet(suspended) :
       /\ r.pc = "rejected"
       /\ suspended' = Unsuspend(r)
  /\ UNCHANGED <<genPc, genCall, encoder, loopLocals, queueVars>>
  /\ UNCHANGED <<gpuVars, surfVars, samplerVars, cacheVars, countCall>>

\* A suspended generate resumes with the program: createCommandEncoder
\* (gpu.device may throw), then the locals.
GenerateBegin ==
  /\ ~Running
  /\ \E r \in BagToSet(suspended) :
       /\ r.pc = "resume"
       /\ suspended' = Unsuspend(r)
       /\ genFormat' = r.format
       /\ genTexture' = r.texture
       /\ genArg' = r.arg
       /\ genProgram' = r.program
       /\ genCaller' = r.caller
       /\ genTexId' = r.texId
       /\ texLevels' = r.levels
       /\ IF Gpu_device = NotInitialized
            THEN /\ genPc' = "failed"
                 /\ UNCHANGED <<encoder, width, height, baseMipLevel,
                                mipLevelCount>>
            ELSE /\ genPc' = "loop"
                 /\ encoder' = TRUE
                 /\ width' = r.texture[1]
                 /\ height' = r.texture[2]
                 /\ baseMipLevel' = 0
                 /\ mipLevelCount' = IF r.arg = <<>>
                                       THEN countMipLevels(r.texture)
                                       ELSE r.arg[1]
  /\ UNCHANGED <<passes, submitted, result, queueVars>>
  /\ UNCHANGED <<gpuVars, surfVars, samplerVars, cacheVars, countCall>>

\* Variants of the loop test that a slip could produce.
LoopContinues_allAnd ==
  (baseMipLevel < mipLevelCount /\ width > 1) /\ height > 1

LoopContinues_levelOnly == baseMipLevel < mipLevelCount \/ height > 1

\* while ((baseMipLevel < mipLevelCount && width > 1) || height > 1)
LoopContinues ==
  (baseMipLevel < mipLevelCount /\ width > 1) \/ height > 1

\* A variant that renders into the level it samples.
TargetLevel_same(base) == base

\* getBindGroup({..., baseMipLevel}): the level the pass samples.
SourceLevel(base) == base

\* getRenderPassDescriptor({..., baseMipLevel: baseMipLevel + 1}): the level
\* the pass renders into.
TargetLevel(base) == base + 1

\* One iteration: halve, build the bind group of the source level (the
\* sampler getter may throw), encode the pass into the next level.
GenerateStep ==
  /\ genPc = "loop"
  /\ LoopContinues
  /\ width' = Halve(width)
  /\ height' = Halve(height)
  /\ IF Mip_sampler = NotInitialized
       THEN /\ genPc' = "failed"
            /\ UNCHANGED <<passes, baseMipLevel, boundSamplers>>
       ELSE /\ passes' = Append(passes,
                 [src |-> SourceLevel(baseMipLevel),
                  dst |-> TargetLevel(baseMipLevel),
                  srcWidth |-> width, srcHeight |-> height,
                  width |-> Halve(width), height |-> Halve(height),
                  sampler |-> sampler, program |-> genProgram])
            /\ boundSamplers' = boundSamplers \cup {sampler}
            /\ baseMipLevel' = baseMipLevel + 1
            /\ UNCHANGED genPc
  /\ UNCHANGED <<suspended, genCall, encoder, mipLevelCount, submitted, result,
                 queue>>
  /\ UNCHANGED <<gpuVars, surfVars, samplerVars, cacheVars, countCall>>

\* A variant that skips the submission when no pass was encoded.
SubmitAtFinish_skipEmpty ==
  IF passes = <<>> THEN <<>> ELSE <<[op |-> "mips", tex |-> genTexId]>>

\* gpu.device.queue.submit([encoder.finish()]), as logged.
SubmitAtFinish == <<[op |-> "mips", tex |-> genTexId]>>

\* The loop is over: encoder.finish(), queue.submit, return baseMipLevel.
GenerateFinish ==
  /\ genPc = "loop"
  /\ ~LoopContinues
  /\ queue' = queue \o SubmitAtFinish
  /\ submitted' = submitted + Len(SubmitAtFinish)
  /\ result' = baseMipLevel
  /\ genPc' = "done"
  /\ UNCHANGED <<suspended, genCall, encoder, width, height, baseMipLevel,
                 mipLevelCount, passes, boundSamplers>>
  /\ UNCHANGED <<gpuVars, surfVars, samplerVars, cacheVars, countCall>>

\* The invocation is over (returned or threw): its locals are gone.
GenerateReturn ==
  /\ genPc \in {"done", "failed"}
  /\ genPc' = "idle"
  /\ UNCHANGED suspended
  /\ genFormat' = NULL
  /\ genTexture' = <<0, 0>>
  /\ genArg' = <<>>
  /\ genProgram' = 0
  /\ genCaller' = NULL
  /\ genTexId' = 0
  /\ texLevels' = 0
  /\ encoder' = FALSE
  /\ width' = 0
  /\ height' = 0
  /\ baseMipLevel' = 0
  /\ mipLevelCount' = 0
  /\ passes' = <<>>
  /\ submitted' = 0
  /\ result' = 0
  /\ UNCHANGED queueVars
  /\ UNCHANGED <<gpuVars, surfVars, samplerVars, cacheVars, countCall>>

\* ---------------------------------------------------- specifications
GenIdle ==
  /\ suspended = EmptyBag
  /\ genPc = "idle"
  /\ genFormat = NULL
  /\ genTexture = <<0, 0>>
  /\ genArg = <<>>
  /\ genProgram = 0
  /\ genCaller = NULL
  /\ genTexId = 0
  /\ texLevels = 0
  /\ encoder = FALSE
  /\ width = 0
  /\ height = 0
  /\ baseMipLevel = 0
  /\ mipLevelCount = 0
  /\ passes = <<>>
  /\ submitted = 0
  /\ result = 0

CacheEmpty ==
  /\ programMap = [f \in Formats |-> 0]
  /\ programsMade = 0
  /\ callers = [c \in Callers |-> IdleCaller]
  /\ given = {}
  /\ compiles = [f \in Formats |-> 0]
  /\ overlapped = [f \in Formats |-> FALSE]
  /\ lastReturn = [format |-> NULL, program |-> 0, hit |-> FALSE]
  /\ failedCompiles = [f \in Formats |-> FALSE]

\* Nothing was sent to the queue and no bind group was built.
QueueEmpty ==
  /\ queue = <<>>
  /\ boundSamplers = {}

SurfaceNew ==
  /\ surfContext = NULL
  /\ surfFormat = NULL
  /\ surfObserver = FALSE
  /\ surfLast = "none"
  /\ surfResolved = FALSE
  /\ canvasWidth = 300
  /\ canvasHeight = 150
  /\ lastResize = <<>>

\* The objects as their constructors leave them.
Init ==
  /\ gpuAdapter = NULL
  /\ gpuDevice = NULL
  /\ gpuAdapterReqs = 0
  /\ gpuDeviceReqs = 0
  /\ gpuHist = [adapterOk |-> FALSE, deviceOk |-> FALSE, failed |-> FALSE]
  /\ gpuLimit \in DeviceLimits
  /\ canvasWebGPU \in BOOLEAN
  /\ SurfaceNew
  /\ sampler = 0
  /\ samplersMade = 0
  /\ CacheEmpty
  /\ countCall = [called |-> FALSE, sizes |-> <<>>, result |-> 0]
  /\ GenIdle
  /\ QueueEmpty

\* The engine after Engine.init() resolved: "await this.gpu.init()" then
\* "await this.texLoader.init(this.gpu)", which creates the sampler.  It is
\* the state SpecDevice reaches from Init by GpuInit, GpuAdapterResolved,
\* GpuDeviceResolved and MipInit, all succeeding, on a device whose
\* maxTextureDimension2D is 4096.
InitReady ==
  /\ gpuAdapter = "adapter"
  /\ gpuDevice = "device"
  /\ gpuAdapterReqs = 0
  /\ gpuDeviceReqs = 0
  /\ gpuHist = [adapterOk |-> TRUE, deviceOk |-> TRUE, failed |-> FALSE]
  /\ gpuLimit = 4096
  /\ canvasWebGPU = TRUE
  /\ SurfaceNew
  /\ sampler = 1
  /\ samplersMade = 1
  /\ CacheEmpty
  /\ countCall = [called |-> FALSE, sizes |-> <<>>, result |-> 0]
  /\ GenIdle
  /\ QueueEmpty

NextGpu == GpuInit \/ GpuAdapterResolved \/ GpuDeviceResolved

NextDevice == NextGpu \/ SurfaceInit \/ ResizeEvent \/ MipInit

NextCache ==
  \/ NextGpu
  \/ \E c \in Callers : GetProgramCall(c)
  \/ \E c \in Callers : ProgramStored(c)
  \/ \E c \in Callers : GetProgramRejected(c)

NextGen ==
  \/ GenerateCall
  \/ CreateTexture
  \/ GenProgramStored
  \/ GenProgramRejected
  \/ GenerateRejected
  \/ GenerateBegin
  \/ GenerateStep
  \/ GenerateFinish
  \/ GenerateReturn

Next == NextDevice \/ NextCache \/ NextGen \/ GetBindGroupCall \/ CountCall

\* The whole package, from construction.
Spec == Init /\ [][Next]_vars

\* Gpu, Surface and MipGenerator initialisation.
SpecDevice == Init /\ [][NextDevice]_vars

\* The constructed objects on one platform: getProgram reads neither the
\* device's limits nor the canvas.
InitCache == Init /\ gpuLimit = 4096 /\ canvasWebGPU = TRUE

\* The program cache under direct, possibly overlapping, getProgram calls.
SpecCache == InitCache /\ [][NextCache]_vars

\* Mip generation on an initialised engine.
SpecGen == InitReady /\ [][NextGen]_vars

\* countMipLevels as a function of its arguments.
SpecCount == Init /\ [][CountCall]_vars

\* ============================================================ claims
\* 2^k, for the small k that occur.
RECURSIVE Pow2(_)
Pow2(k) == IF k <= 0 THEN 1 ELSE 2 * Pow2(k - 1)

\* The n with 2^(n-1) <= m < 2^n, that is floor(1 + log2(m)), for m >= 1.
LevelsOf(m) == CHOOSE n \in 1..16 : Pow2(n - 1) <= m /\ m < Pow2(n)

\* The largest element of a non-empty tuple of numbers.
Largest(sizes) ==
  CHOOSE m \in {sizes[i] : i \in 1..Len(sizes)} :
    \A i \in 1..Len(sizes) : sizes[i] <= m

\* generate() is in or just past its loop.
InLoopOrDone == genPc \in {"loop", "done"}

\* generate and getBindGroup on an engine whose MipGenerator may be
\* initialised again.
NextMip ==
  \/ GenerateCall
  \/ GenProgramStored
  \/ GenProgramRejected
  \/ GenerateRejected
  \/ GenerateBegin
  \/ GenerateStep
  \/ GenerateFinish
  \/ GenerateReturn
  \/ MipInit
  \/ GetBindGroupCall

SpecMip == InitReady /\ [][NextMip]_vars

\* ------------------------------------------------------------------ C1
\* C1: the loop of generate issues the pass i -> i+1 exactly while
\* (i < levelCount-1) AND (width > 1 OR height > 1), so no pass has a
\* destination level above levelCount-1.
C1_LoopBound ==
  /\ genPc = "loop" =>
       (LoopContinues <=>
          (baseMipLevel < mipLevelCount - 1 /\ (width > 1 \/ height > 1)))
  /\ \A i \in 1..Len(passes) : passes[i].dst <= mipLevelCount - 1

\* ------------------------------------------------------------------ C2
\* C2: the value generate returns is the number of passes it encoded and
\* is never greater than the requested level count.
C2_ReturnValue ==
  genPc = "done" => (result = Len(passes) /\ result <= mipLevelCount)

\* ------------------------------------------------------------------ C3
\* C3: with the default level count a W x H texture gets exactly
\* countMipLevels(W, H) levels: the k-th pass reads level k-1 and writes
\* level k once, the dimensions tracked for level k are
\* max(1, floor(W/2^k)) x max(1, floor(H/2^k)), and 256 x 256 gives 9 levels.
C3_DefaultChain ==
  (InLoopOrDone /\ genArg = <<>>) =>
    LET W == genTexture[1]
        H == genTexture[2]
        n == Len(passes) + 1
    IN /\ \A k \in 1..Len(passes) :
            /\ passes[k].src = k - 1
            /\ passes[k].dst = k
            /\ passes[k].width = Max(1, W \div Pow2(k))
            /\ passes[k].height = Max(1, H \div Pow2(k))
       /\ n <= countMipLevels(<<W, H>>)
       /\ genPc = "done" =>
            /\ n = countMipLevels(<<W, H>>)
            /\ n = LevelsOf(Max(W, H))
            /\ (W = 256 /\ H = 256) => n = 9

C3_Witness ==
  /\ genPc = "done"
  /\ genArg = <<>>
  /\ genTexture = <<256, 256>>
  /\ Len(passes) = 8
  /\ passes[8].width = 1

\* ------------------------------------------------------------------ C4
\* The texture has a side of 1 and the caller asks for more levels than
\* the longer side can be halved.
OneAxisCase ==
  /\ InLoopOrDone
  /\ genTexture[1] = 1 \/ genTexture[2] = 1
  /\ genArg # <<>>
  /\ genArg[1] > LevelsOf(Max(genTexture[1], genTexture[2])) - 1

\* C4: for a W x 1 or 1 x H texture and a level count larger than the
\* halvings needed, generate terminates: it encodes one pass per halving,
\* never a pass once both tracked sides are 1, and then submits.
C4_Collapse ==
  OneAxisCase =>
    LET halvings == LevelsOf(Max(genTexture[1], genTexture[2])) - 1
    IN /\ \A i \in 1..Len(passes) :
            passes[i].srcWidth > 1 \/ passes[i].srcHeight > 1
       /\ Len(passes) <= halvings
       /\ (genPc = "loop" /\ width = 1 /\ height = 1) => ~LoopContinues
       /\ genPc = "done" =>
            /\ width = 1
            /\ height = 1
            /\ Len(passes) = halvings
            /\ submitted = 1

\* A single row of 256 texels with 12 levels asked for: the loop is kept
\* going by "baseMipLevel < mipLevelCount && width > 1" alone and has stopped
\* after 8 passes.
C4_Witness ==
  /\ genPc = "done"
  /\ genTexture = <<256, 1>>
  /\ genArg = <<12>>
  /\ Len(passes) = 8
  /\ passes[8].srcWidth = 2
  /\ width = 1
  /\ result < genArg[1]

\* ------------------------------------------------------------------ C5
\* C5: countMipLevels(sizes...) is floor(1 + log2(max(sizes))) for positive
\* integer dimensions: (1,1) -> 1, (256,256) -> 9, (300,150) -> 9.
C5_CountMipLevels ==
  countCall.called =>
    LET m == Largest(countCall.sizes)
        n == countCall.result
    IN /\ n >= 1
       /\ Pow2(n - 1) <= m
       /\ m < Pow2(n)
       /\ countCall.sizes = <<1, 1>> => n = 1
       /\ countCall.sizes = <<256, 256>> => n = 9
       /\ countCall.sizes = <<300, 150>> => n = 9

C5_Witness ==
  /\ countCall.called
  /\ countCall.sizes = <<300, 150>>
  /\ countCall.result = 9

\* ------------------------------------------------------------------ C6
\* C6: as long as no Gpu.init() has completed successfully, the adapter
\* accessor and the device accessor both throw the not-initialized error.
C6_AccessorsThrow ==
  ~gpuHist.deviceOk =>
    (Gpu_adapter = NotInitialized /\ Gpu_device = NotInitialized)

\* ------------------------------------------------------------------ C7
\* This step is a request settling and leaving a handle in its field: the
\* adapter request goes on to request a device, the device request leaves
\* a device stored.
RequestSucceeds ==
  \/ gpuAdapterReqs' < gpuAdapterReqs /\ gpuDeviceReqs' > gpuDeviceReqs
  \/ gpuDeviceReqs' < gpuDeviceReqs /\ gpuDevice' # NULL

\* This step is the first init() call to throw because the platform
\* returned no adapter, or an adapter but no device.
FirstInitFails == ~gpuHist.failed /\ gpuHist'.failed

\* C7 as stated: ready is true only after both requests succeeded, and
\* once the platform has returned no adapter, or an adapter but no device,
\* ready is false in every later state.
C7_ReadyStaysFalse ==
  /\ Gpu_ready => (gpuHist.adapterOk /\ gpuHist.deviceOk)
  /\ gpuHist.failed => ~Gpu_ready

\* C7 amended: ready is true only after an adapter request and a device
\* request have succeeded; an init() that fails because a request returned
\* null leaves ready false (whatever ready was before), and ready becomes
\* true again only when a request of some init() call, a later or an
\* overlapping one, succeeds.
C7_ReadyOnlyAfterBoth ==
  /\ [](Gpu_ready => (gpuHist.adapterOk /\ gpuHist.deviceOk))
  /\ [][FirstInitFails => ~Gpu_ready']_vars
  /\ [][(~Gpu_ready /\ Gpu_ready') => RequestSucceeds]_vars

\* The platform returned null to some init(), and ready is true with no
\* call pending: that init() left ready false, a request that succeeded
\* since made it true.
C7_Witness ==
  /\ gpuAdapterReqs = 0
  /\ gpuDeviceReqs = 0
  /\ gpuHist.failed
  /\ Gpu_ready

\* ------------------------------------------------------------------ C8
\* C8: until a Surface.init(gpu) has completed, also when it failed, the
\* context and format accessors throw and ready is false; right after an
\* init that resolves both accessors return.
C8_SurfaceAccessors ==
  /\ ~surfResolved =>
       /\ Surface_context = NotInitialized
       /\ Surface_format = NotInitialized
       /\ ~Surface_ready
  /\ surfLast = "resolved" =>
       /\ Surface_context # NotInitialized
       /\ Surface_format # NotInitialized

\* ------------------------------------------------------------------ C9
\* The programs callers have received for the format.
GivenFor(format) == {p \in 1..MaxPrograms : <<format, p>> \in given}

\* C9: while the calls for a format do not overlap, every call for it
\* returns the same instance, compiled once; different formats get different
\* instances; the cache has an entry exactly for the formats returned so far.
C9_SequentialCache ==
  /\ \A f \in Formats :
       ~overlapped[f] =>
         /\ Cardinality(GivenFor(f)) <= 1
         /\ compiles[f] <= 1
         /\ GivenFor(f) # {} => (compiles[f] = 1 /\ programMap[f] \in GivenFor(f))
  /\ \A f, g \in Formats : f # g => GivenFor(f) \cap GivenFor(g) = {}
  /\ \A f \in Formats : programMap[f] # 0 <=> GivenFor(f) # {}
  /\ (lastReturn.hit /\ ~overlapped[lastReturn.format]) =>
       GivenFor(lastReturn.format) = {lastReturn.program}

C9_Witness ==
  /\ lastReturn.hit
  /\ ~overlapped[lastReturn.format]
  /\ \E g \in Formats :
       /\ g # lastReturn.format
       /\ programMap[g] # 0
       /\ programMap[g] # lastReturn.program

\* ----------------------------------------------------------------- C10
\* C10: overlapping getProgram calls for one uncached format are not
\* deduplicated: calls suspended together with a compiled Program hold
\* different Programs; a format is compiled twice only when calls for it
\* overlapped; and when all calls have returned the callers have received
\* as many instances as were compiled, of which the cache keeps one.
C10_NotDeduplicated ==
  \A f \in Formats :
    /\ \A c, d \in Callers :
         (c # d /\ callers[c].pc = "await" /\ callers[d].pc = "await"
            /\ callers[c].format = f /\ callers[d].format = f)
           => callers[c].program # callers[d].program
    /\ compiles[f] >= 2 => overlapped[f]
    /\ ~InFlight(f) =>
         /\ Cardinality(GivenFor(f)) = compiles[f]
         /\ compiles[f] >= 2 =>
              /\ programMap[f] \in GivenFor(f)
              /\ \E p \in GivenFor(f) : p # programMap[f]

C10_Witness ==
  \E f \in Formats :
    /\ overlapped[f]
    /\ ~InFlight(f)
    /\ compiles[f] = 2
    /\ Cardinality(GivenFor(f)) = 2
    /\ programMap[f] \in GivenFor(f)

\* ----------------------------------------------------------------- C11
\* This step is a getProgram call by c whose init() throws, or that call
\* rejecting.
FailingCallStep(c) ==
  /\ callers'[c] # callers[c]
  /\ callers[c].pc = "awaitThrows" \/ callers'[c].pc = "awaitThrows"

\* C11: a getProgram call whose compilation fails leaves the cache exactly
\* as it was, from the call to its rejection, and hands no program out;
\* every entry of the cache is a
\* Program whose init() completed and that a caller received; while no
\* compilation for a format has succeeded the cache has no entry for it, so
\* the next getProgram for it compiles again.
C11_FailedCompileNotCached ==
  /\ [](\A f \in Formats :
          /\ programMap[f] # 0 =>
               /\ programMap[f] \in 1..programsMade
               /\ programMap[f] \in GivenFor(f)
          /\ (failedCompiles[f] /\ compiles[f] = 0) => CacheLookup(f) = 0)
  /\ [][\A f \in Formats :
          (failedCompiles'[f] /\ ~failedCompiles[f]) =>
            /\ programMap' = programMap
            /\ given' = given
            /\ programsMade' = programsMade]_vars
  /\ [][\A c \in Callers :
          FailingCallStep(c) =>
            /\ programMap' = programMap
            /\ given' = given
            /\ programsMade' = programsMade]_vars

\* A compilation for the format failed, and a later call compiled and cached it.
C11_Witness ==
  \E f \in Formats :
    /\ failedCompiles[f]
    /\ compiles[f] = 1
    /\ ~overlapped[f]
    /\ ~InFlight(f)
    /\ programMap[f] # 0

\* ----------------------------------------------------------------- C12
\* The command buffers submitted so far, by any generate invocation.
MipSubmissions == Len(SelectSeq(queue, LAMBDA e : e.op = "mips"))

\* The suspended invocations whose Program.init() has thrown.
Rejected ==
  {r \in BagToSet(suspended) : r.pc \in {"awaitThrows", "rejected"}}

\* This step is a generate call failing in getProgram, getProgram
\* rejecting, or the rejection ending such an invocation.
RejectionStep ==
  \E r \in Rejected \cup Rejected' :
    CopiesIn(r, suspended') # CopiesIn(r, suspended)

\* C12: a generate invocation whose pipeline cannot be built fails before
\* any GPU work: it has no program and no command encoder, and neither the
\* call that fails nor the rejection that ends it encodes a pass, builds a
\* bind group or submits anything.
C12_NoGpuWorkOnFailure ==
  /\ [](\A r \in Rejected : ~r.encoder /\ r.program = 0)
  /\ [][RejectionStep =>
          /\ MipSubmissions' = MipSubmissions
          /\ boundSamplers' = boundSamplers
          /\ passes' = passes
          /\ encoder' = encoder
          /\ submitted' = submitted]_vars

\* generate was invoked for a format whose compilation failed.
C12_Witness ==
  \E r \in Rejected :
    /\ r.pc = "rejected"
    /\ r.caller = "client"
    /\ failedCompiles[r.format]
    /\ programMap[r.format] = 0

\* ----------------------------------------------------------------- C13
\* C13: after a resize event on an initialised Surface, whatever content-box
\* width and height it reports (zero and sizes above the limit included),
\* the canvas width and height are in [1, maxTextureDimension2D]: a size in
\* that range is stored as it is, a smaller one as 1, a larger one as the
\* limit; 5000 x 5000 with a limit of 4096 is stored as 4096 x 4096.
C13_ResizeClamped ==
  lastResize # <<>> =>
    /\ canvasWidth \in 1..gpuLimit
    /\ canvasHeight \in 1..gpuLimit
    /\ lastResize[1] \in 1..gpuLimit => canvasWidth = lastResize[1]
    /\ lastResize[2] \in 1..gpuLimit => canvasHeight = lastResize[2]
    /\ lastResize[1] < 1 => canvasWidth = 1
    /\ lastResize[2] > gpuLimit => canvasHeight = gpuLimit
    /\ (lastResize = <<5000, 5000>> /\ gpuLimit = 4096) =>
         (canvasWidth = 4096 /\ canvasHeight = 4096)

\* A resize to 0 x 5000 on a device whose limit is 4096.
C13_Witness ==
  /\ Surface_ready
  /\ gpuLimit = 4096
  /\ lastResize = <<0, 5000>>
  /\ canvasWidth = 1
  /\ canvasHeight = 4096

\* ----------------------------------------------------------------- C14
\* C14: createTexture invokes generate only for a texture whose computed
\* level count is above 1; for a texture with one level generate is not
\* invoked and no command buffer of mip passes is submitted for it.
C14_GenerateOnlyAboveOneLevel ==
  /\ \A r \in BagToSet(suspended) :
       r.caller = "createTexture" =>
         (r.levels > 1 /\ countMipLevels(r.texture) > 1)
  /\ genCaller = "createTexture" =>
       /\ texLevels > 1
       /\ countMipLevels(genTexture) > 1
       /\ \A i \in 1..Len(queue) :
            queue[i].op = "mips" => queue[i].tex # genTexId \/ texLevels > 1

\* ----------------------------------------------------------------- C15
\* C15 as stated: an entry of the cache, once stored, is the same instance
\* in every later state, and every caller that received a program for the
\* format holds the instance the cache holds.
C15_NeverReplaced ==
  /\ [][\A f \in Formats :
          programMap[f] # 0 => programMap'[f] = programMap[f]]_vars
  /\ [](\A f \in Formats :
          programMap[f] # 0 => GivenFor(f) = {programMap[f]})

\* C15: an entry of the cache, once stored, is never removed, and it is
\* replaced only when calls for its format overlapped (the call that
\* completes later stores its own Program over it); for a format whose
\* calls never overlapped the entry stays the same instance and every
\* caller that received a program for the format holds that instance.
C15_ReplacedOnlyByOverlap ==
  /\ [][\A f \in Formats :
          programMap[f] # 0 =>
            /\ programMap'[f] # 0
            /\ programMap'[f] # programMap[f] => overlapped[f]]_vars
  /\ [](\A f \in Formats :
          (~overlapped[f] /\ programMap[f] # 0) =>
            GivenFor(f) = {programMap[f]})

\* Calls for a format overlapped and a caller holds a Program for it that
\* is not the cached one, while another format is cached too.
C15_Witness ==
  \E f, g \in Formats :
    /\ f # g
    /\ overlapped[f]
    /\ programMap[g] # 0
    /\ programMap[f] # 0
    /\ \E p \in GivenFor(f) : p # programMap[f]

\* ----------------------------------------------------------------- C16
\* C16: the MipGenerator creates one sampler, and all the bind groups it
\* builds, for every level of every texture and after any sequence of init
\* and generate calls, bind that one sampler.
C16_SingleSampler ==
  /\ samplersMade <= 1
  /\ Cardinality(boundSamplers) <= 1
  /\ \A i \in 1..Len(passes) : passes[i].sampler = passes[1].sampler

\* ----------------------------------------------------------------- C17
\* C17: the passes of one generate invocation are encoded in strictly
\* increasing level order: the k-th pass (counting from 0) samples level k
\* and renders into level k + 1, so the first source is the base level 0,
\* every later source is the destination of the pass just before it, and
\* no pass samples the level it renders into.
C17_PassOrder ==
  \A i \in 1..Len(passes) :
    /\ passes[i].src = i - 1
    /\ passes[i].dst = i
    /\ passes[i].src # passes[i].dst
    /\ i = 1 => passes[i].src = 0
    /\ i > 1 =>
         /\ passes[i].src = passes[i - 1].dst
         /\ passes[i].src > passes[i - 1].src
         /\ passes[i].dst > passes[i - 1].dst

\* A finished invocation with at least three passes.
C17_Witness ==
  /\ genPc = "done"
  /\ Len(passes) >= 3
  /\ passes[3].src = 2
  /\ passes[3].dst = 3

\* ----------------------------------------------------------------- C18
\* C18: a generate invocation that completes without error has made
\* exactly one queue submission, and made it after encoding all its passes:
\* nothing is submitted before the loop is over, a command buffer is added
\* to the queue exactly in the step that ends an invocation's loop, one
\* buffer for the invocation's texture, and no pass is encoded afterwards.
\* This holds for an invocation that encodes no pass as well.
C18_OneSubmission ==
  /\ [](genPc = "done" =>
          /\ submitted = 1
          /\ queue # <<>>
          /\ queue[Len(queue)] = [op |-> "mips", tex |-> genTexId])
  /\ [](genPc \in {"idle", "loop"} => submitted = 0)
  /\ [][MipSubmissions' # MipSubmissions <=>
          (genPc = "loop" /\ genPc' = "done")]_vars
  /\ [][(genPc = "loop" /\ genPc' = "done") =>
          /\ MipSubmissions' = MipSubmissions + 1
          /\ passes' = passes]_vars
  /\ [][submitted >= 1 => Len(passes') <= Len(passes)]_vars

\* An invocation that encoded no pass has completed with its submission.
C18_Witness ==
  /\ genPc = "done"
  /\ genCaller = "client"
  /\ passes = <<>>
  /\ submitted = 1
  /\ MipSubmissions = 1

\* ----------------------------------------------------------------- C19
\* C19: a texture made by createTexture from a W x H source has
\* floor(1 + log2(max(W, H))) levels, and the generate invocation that
\* createTexture triggers, which takes the default level count, samples and
\* renders only levels the texture has: every source and destination index
\* is below the texture's level count.
C19_LevelsWithinTexture ==
  /\ \A r \in BagToSet(suspended) :
       r.caller = "createTexture" =>
         /\ r.levels = LevelsOf(Largest(r.texture))
         /\ r.arg = <<>>
  /\ genCaller = "createTexture" =>
       /\ texLevels = LevelsOf(Largest(genTexture))
       /\ genArg = <<>>
       /\ genPc \in {"loop", "done"} => mipLevelCount = texLevels
       /\ \A i \in 1..Len(passes) :
            /\ passes[i].src < texLevels
            /\ passes[i].dst < texLevels
       /\ genPc = "done" => Len(passes) = texLevels - 1

\* createTexture of a 300 x 150 source: nine levels, eight passes.
C19_Witness ==
  /\ genCaller = "createTexture"
  /\ genTexture = <<300, 150>>
  /\ genPc = "done"
  /\ texLevels = 9
  /\ Len(passes) = 8
  /\ passes[8].dst = 8

\* ----------------------------------------------------------------- C20
\* A texture was created in this step.
TextureCreated == NextTexId' = NextTexId + 1

\* The queue holds the copy into the texture.
Copied(id) ==
  \E j \in 1..Len(queue) : queue[j] = [op |-> "copy", tex |-> id]

\* C20: for a texture made by createTexture the copy into level 0 is sent
\* to the queue before the command buffer of its mip passes, however the
\* invocations of generate overlap: whenever the queue holds that command
\* buffer it holds the texture's copy earlier, and the copy is in the queue
\* while the invocation is suspended and while it runs.  createTexture
\* returns without waiting for generate: the step that creates the texture
\* logs the copy, leaves the invocation suspended and submits nothing.
C20_CopyBeforeMips ==
  /\ [](\A i \in 1..Len(queue) :
          (queue[i].op = "mips" /\ queue[i].tex # 0) =>
            \E j \in 1..(i - 1) :
              queue[j] = [op |-> "copy", tex |-> queue[i].tex])
  /\ [](\A r \in BagToSet(suspended) :
          r.caller = "createTexture" => Copied(r.texId))
  /\ [](genCaller = "createTexture" => Copied(genTexId))
  /\ [][TextureCreated =>
          /\ \E r \in BagToSet(suspended') :
               /\ r.caller = "createTexture"
               /\ r.texId = NextTexId
               /\ CopiesIn(r, suspended') = 1
               /\ CopiesIn(r, suspended) = 0
          /\ MipSubmissions' = MipSubmissions
          /\ queue' = Append(queue, [op |-> "copy", tex |-> NextTexId])
          /\ UNCHANGED <<genPc, passes, submitted>>]_vars

\* Two textures were created while the first one's generate was suspended;
\* both invocations have run: the queue holds both copies, then both
\* command buffers.
C20_Witness ==
  /\ genPc = "done"
  /\ genCaller = "createTexture"
  /\ Len(passes) >= 1
  /\ Len(queue) = 4
  /\ queue[1] = [op |-> "copy", tex |-> 1]
  /\ queue[2] = [op |-> "copy", tex |-> 2]
  /\ queue[3].op = "mips"
  /\ queue[4] = [op |-> "mips", tex |-> genTexId]

====
